---- MODULE Spec2Model ----
(***************************************************************************)
(* MIKA, a governed cognitive assistant: the Governor (policy engine with  *)
(* an audit log), the two-tier MemoryCore, the EmotionState and the        *)
(* RewardSystem, the CommandProcessor, the turn pipeline of MikaAssistant  *)
(* and main() with its signal handler and shutdown, as state machines.     *)
(*                                                                         *)
(* Conventions.                                                            *)
(*  - A Python string that the code splits or searches (a permission path, *)
(*    an input text) is a sequence of symbols; "." is the path separator.  *)
(*  - Python floats are integers in thousandths (0.6 is 600, 0.05 is 50).  *)
(*  - time.time() / datetime.utcnow() is a logical clock that advances at  *)
(*    every reading.                                                       *)
(***************************************************************************)
EXTENDS Integers, Sequences, FiniteSets, TLC

VARIABLES
    rules,            \* GovernorEngine.rules, the loaded rule tree
    audit_log,        \* GovernorEngine.audit_log
    clock,            \* the wall clock read by _audit and by MemoryItem
    last_call,        \* the last call made on a public method and its outcome
    calls,            \* how many public calls were made (bounded)
    short_term_limit, \* MemoryCore.short_term_limit
    short_term,       \* MemoryCore.short_term
    long_term,        \* MemoryCore.long_term
    disk,             \* the content of MemoryCore.memory_file
    loaded,           \* what _load read at construction (history)
    added,            \* the items add_interaction created, in order (history)
    emotion_state,    \* EmotionState.emotion_state (MikaAssistant.emotion_engine)
    cfg_emotion,      \* Config.state.emotion_state
    score,            \* RewardSystem.score
    core_traits,      \* Config.personality["core_traits"]
    model,            \* MikaAssistant.model: "none" or "llama"
    pc,               \* where MikaAssistant.start / handle_input stands
    turn,             \* the locals of the handle_input call in flight
    trace,            \* the stages the turn in flight went through (history)
    turn0,            \* score and memory when the turn in flight began (history)
    spoken,           \* what speak() emitted for the turn in flight
    turns,            \* how many inputs were acquired (bounded)
    context,          \* CommandProcessor.context: history and last_intent
    shutdown_event,   \* MikaAssistant.shutdown_event, the cooperative flag
    tasks,            \* the shutdown() tasks the signal handler created
    in_flight,        \* handle_input calls begun and not yet returned (history)
    flush,            \* what the shutdown() calls have completed (history)
    summary_item      \* the item a running summarize_long_term() has built

govVars == <<rules, audit_log, clock, last_call, calls>>
memVars == <<short_term_limit, short_term, long_term, disk, loaded, added>>
affVars == <<emotion_state, cfg_emotion, score>>
turnVars == <<core_traits, model, pc, turn, trace, turn0, spoken, turns>>
cmdVars == <<context>>
lifeVars == <<shutdown_event, tasks, in_flight, flush, summary_item>>
vars == <<govVars, memVars, affVars, turnVars, cmdVars, lifeVars>>

----------------------------------------------------------------------------
(* Bounds of the model *)

MaxCalls == 3
MaxLimit == 3
MaxAdds == 3
MaxFileItems == 2
MaxTurns == 2
MaxSummaries == 1
MaxScore == 1
MaxSignals == 1

----------------------------------------------------------------------------
(* Sequences *)

IsPrefix(s, t) == Len(s) <= Len(t) /\ SubSeq(t, 1, Len(s)) = s

Last(s) == s[Len(s)]

\* Python's s[-n:] for n >= 1
LastN(s, n) == IF Len(s) <= n THEN s ELSE SubSeq(s, Len(s) - n + 1, Len(s))

\* Python's s[-n:] for n >= 0: -0 is 0, so s[-0:] is s[0:], the whole list
LastSlice(s, n) == IF n = 0 THEN s ELSE LastN(s, n)

Min(a, b) == IF a <= b THEN a ELSE b

Max(a, b) == IF a >= b THEN a ELSE b

\* Python's `a in path` for strings: a occurs as a contiguous run of path
Occurs(a, path) ==
    \E i \in 0..(Len(path) - Len(a)) : SubSeq(path, i + 1, i + Len(a)) = a

\* Python's path.endswith(a)
EndsWith(path, a) ==
    Len(a) <= Len(path) /\ SubSeq(path, Len(path) - Len(a) + 1, Len(path)) = a

----------------------------------------------------------------------------
(* Governor: the rule tree *)

Dot == "."

\* str.split("."): the segments between the separators, empty ones included
RECURSIVE SplitFrom(_, _, _)
SplitFrom(path, i, cur) ==
    IF i > Len(path) THEN <<cur>>
    ELSE IF path[i] = Dot THEN <<cur>> \o SplitFrom(path, i + 1, <<>>)
    ELSE SplitFrom(path, i + 1, Append(cur, path[i]))

Split(path) == SplitFrom(path, 1, <<>>)

\* A permissions subtree is a function from the key path of each node (the
\* sequence of keys that leads to it from the root, <<>> being the root) to
\* the kind of value stored there: "dict" for a mapping, else a leaf kind.
CognitionReason == <<"cognition", Dot, "reason">>
ToolsExecute == <<"tools", Dot, "execute_code_in_sandbox">>

Node(keys, kind) == [keys |-> keys, kind |-> kind]

Tree(nodes) == [k \in {n.keys : n \in nodes} |->
                   (CHOOSE n \in nodes : n.keys = k).kind]

PermFull == Tree({
    Node(<<>>, "dict"),
    Node(<< <<"cognition">> >>, "dict"),
    Node(<< <<"cognition">>, <<"reason">> >>, "true"),
    Node(<< <<"tools">> >>, "dict"),
    Node(<< <<"tools">>, <<"execute_code_in_sandbox">> >>, "true") })

PermNoReason == Tree({
    Node(<<>>, "dict"),
    Node(<< <<"cognition">> >>, "str"),
    Node(<< <<"tools">> >>, "dict"),
    Node(<< <<"tools">>, <<"execute_code_in_sandbox">> >>, "true") })

PermNoTools == Tree({
    Node(<<>>, "dict"),
    Node(<< <<"cognition">> >>, "dict"),
    Node(<< <<"cognition">>, <<"reason">> >>, "false"),
    Node(<< <<"tools">> >>, "dict"),
    Node(<< <<"tools">>, <<"read_files">> >>, "null") })

PermEmpty == Tree({ Node(<<>>, "dict") })

NoClamp == [k \in {} |-> <<>>]

SomeClamp == [k \in {"curiosity", "happiness"} |->
                 IF k = "curiosity" THEN <<0, 1000>> ELSE <<>>]

\* A table whose pair is written the wrong way round: [1.0, 0.0]
InvertedClamp == [k \in {"curiosity"} |-> <<1000, 0>>]

\* approval_required_for is the list of its leading strings together with
\* what comes after them: "end" for a list of strings, "int" when an item that
\* is not a string follows, "null" when the value is no list at all (and
\* then there are no leading strings)
Rules(perms, approvals, bounds) ==
    [permissions |-> perms,
     approval_required_for |-> approvals,
     approvals_tail |-> "end",
     personality_clamp |-> bounds]

Malformed(r, tail) == [r EXCEPT !.approvals_tail = tail]

\* permissions: null
PermNull == Tree({ Node(<<>>, "null") })

\* Rule files with a valid governor.version and a malformed rest:
\* approval_required_for: null, approval_required_for:
\* [execute_code_in_sandbox, 5], permissions: null, and a string where a
\* mapping is expected under permissions
MalformedRuleTrees == {
    Malformed(Rules(PermFull, <<>>, SomeClamp), "null"),
    Malformed(Rules(PermFull, << <<"execute_code_in_sandbox">> >>, SomeClamp), "int"),
    Rules(PermNull, <<>>, NoClamp),
    Rules(PermNoReason, << <<"tools">> >>, SomeClamp) }

\* The rule files the assistant is run with here: both gates open, the
\* reasoning gate closed, the command gate closed
AssistantRuleTrees == {
    Rules(PermFull, <<>>, SomeClamp),
    Rules(PermNoReason, <<>>, SomeClamp),
    Rules(PermNoTools, << <<"tools", Dot, "read_files">> >>, NoClamp) }

RuleTrees == {
    Rules(PermFull, <<>>, SomeClamp),
    Rules(PermFull, << <<"execute_code_in_sandbox">> >>, InvertedClamp),
    Rules(PermNoReason, <<>>, SomeClamp),
    Rules(PermNoTools, << <<"tools", Dot, "read_files">> >>, NoClamp),
    Rules(PermEmpty, <<>>, NoClamp) }

\* The permission paths the callers ask about
Paths == {
    CognitionReason,
    ToolsExecute,
    <<"tools">>,
    <<"tools", Dot, "read_files">>,
    <<"tools", Dot, "execute_code_in_sandbox", Dot, "now">>,
    <<"cognition", Dot>>,
    <<>> }

ClampKeys == {"curiosity", "happiness", "humor"}
ClampValues == {-500, 400, 1500}

----------------------------------------------------------------------------
(* Governor: queries *)

\* node = node[p] for each part in turn; any exception (a missing key, a
\* value that is not a mapping) ends the walk with False.
RECURSIVE WalkStrict(_, _, _, _)
WalkStrict(tree, node, parts, i) ==
    IF i > Len(parts) THEN TRUE
    ELSE IF tree[node] # "dict" THEN FALSE
    ELSE IF Append(node, parts[i]) \notin DOMAIN tree THEN FALSE
    ELSE WalkStrict(tree, Append(node, parts[i]), parts, i + 1)

RECURSIVE WalkLenient(_, _, _, _)
WalkLenient(tree, node, parts, i) ==
    IF i > Len(parts) THEN TRUE
    ELSE IF tree[node] # "dict" THEN TRUE
    ELSE IF Append(node, parts[i]) \notin DOMAIN tree THEN FALSE
    ELSE WalkLenient(tree, Append(node, parts[i]), parts, i + 1)

LeafTruthy(kind) == kind \in {"dict", "true", "str"}

\* Mutant: a leaf reached before the last segment counts as permitted
_lookup_permission_lenient(r, path) ==
    WalkLenient(r.permissions, <<>>, Split(path), 1)

\* Mutant: the value stored at the end of the chain decides
_lookup_permission_by_value(r, path) ==
    /\ WalkStrict(r.permissions, <<>>, Split(path), 1)
    /\ LeafTruthy(r.permissions[Split(path)])

\* Mutant: only a path that ends at a leaf is permitted
_lookup_permission_leaf_only(r, path) ==
    /\ WalkStrict(r.permissions, <<>>, Split(path), 1)
    /\ r.permissions[Split(path)] # "dict"

_lookup_permission(r, path) ==
    WalkStrict(r.permissions, <<>>, Split(path), 1)

\* Mutant: an identifier that is the whole path does not count
_requires_approval_inside_only(r, path) ==
    \E n \in 1..Len(r.approval_required_for) :
        LET a == r.approval_required_for[n]
        IN  a # path /\ (EndsWith(path, a) \/ Occurs(a, path))

\* Mutant: only a path that ends with the identifier needs approval
_requires_approval_suffix_only(r, path) ==
    \E n \in 1..Len(r.approval_required_for) :
        EndsWith(path, r.approval_required_for[n])

_requires_approval(r, path) ==
    \E n \in 1..Len(r.approval_required_for) :
        LET a == r.approval_required_for[n]
        IN  EndsWith(path, a) \/ Occurs(a, path)

\* any(path.endswith(a) or a in path for a in approvals) raises TypeError
\* when approvals cannot be iterated, and when it reaches an item that is not
\* a string, which it does unless a string before that item matched
_requires_approval_raises(r, path) ==
    \/ r.approvals_tail = "null"
    \/ r.approvals_tail = "int" /\ ~_requires_approval(r, path)

\* What a call hands back when an exception left it
Raised(exception) == [raised |-> exception]

\* The GovernorDecision that allows() builds
GovernorDecision(r, path) ==
    LET allowed == _lookup_permission(r, path)
    IN  [allowed |-> allowed,
         reason |-> IF allowed THEN "allowed" ELSE "forbidden",
         requires_approval |-> _requires_approval(r, path)]

AuditRecord(now, event, subject, decision) ==
    [time |-> now, event |-> event, subject |-> subject, decision |-> decision]

\* Mutant: the log keeps only the newest record
_audit_keep_last(log, now, event, subject, decision) ==
    <<AuditRecord(now, event, subject, decision)>>

_audit(log, now, event, subject, decision) ==
    Append(log, AuditRecord(now, event, subject, decision))

\* dict.get(key) on the personality_clamp table: None when the key is absent
ClampBounds(r, key) ==
    IF key \in DOMAIN r.personality_clamp THEN r.personality_clamp[key] ELSE <<>>

\* `not bounds`: None and the empty list are falsy
HasBounds(r, key) == ClampBounds(r, key) # <<>>

\* Mutant: only the upper bound is applied
Clamped_upper_only(r, key, value) ==
    IF HasBounds(r, key) THEN Min(ClampBounds(r, key)[2], value) ELSE value

Clamped(r, key, value) ==
    IF HasBounds(r, key)
    THEN Max(ClampBounds(r, key)[1], Min(ClampBounds(r, key)[2], value))
    ELSE value

\* Mutant: clamp returns before it records anything
clamp_audits_never(r, key) == FALSE

\* Whether clamp reaches its _audit call
clamp_audits(r, key) == HasBounds(r, key)

\* Mutant: a query uses up the approval list
rules_after_query_consuming(r) == [r EXCEPT !.approval_required_for = <<>>]

\* self.rules after a call of allows, clamp, requires_approval or enforce:
\* the methods read it with .get and subscripts and assign nothing into it
rules_after_query(r) == r

NoCall == [op |-> "none", arg |-> <<>>, ret |-> <<>>]

Call(op, arg, ret) == [op |-> op, arg |-> arg, ret |-> ret]

allows(permission_path) ==
    /\ calls < MaxCalls
    /\ IF _requires_approval_raises(rules, permission_path)
       THEN /\ last_call' = Call("allows", permission_path, Raised("TypeError"))
            /\ UNCHANGED <<audit_log, clock>>
       ELSE LET decision == GovernorDecision(rules, permission_path)
            IN  /\ audit_log' = _audit(audit_log, clock, "permission_check",
                                      permission_path, decision)
                /\ last_call' = Call("allows", permission_path, decision)
                /\ clock' = clock + 1
    /\ calls' = calls + 1
    /\ rules' = rules_after_query(rules)
    /\ UNCHANGED <<memVars, affVars, turnVars, cmdVars, lifeVars>>

clamp(category, key, value) ==
    /\ calls < MaxCalls
    /\ LET clamped == Clamped(rules, key, value)
       IN  /\ IF clamp_audits(rules, key)
              THEN /\ audit_log' = _audit(audit_log, clock, "clamp",
                                         <<category, Dot, key>>,
                                         [input |-> value, output |-> clamped])
                   /\ clock' = clock + 1
              ELSE UNCHANGED <<audit_log, clock>>
           /\ last_call' = Call("clamp", <<category, key, value>>, clamped)
    /\ calls' = calls + 1
    /\ rules' = rules_after_query(rules)
    /\ UNCHANGED <<memVars, affVars, turnVars, cmdVars, lifeVars>>

\* action in self.rules.get("approval_required_for", []): exact membership
requires_approval(action) ==
    /\ calls < MaxCalls
    /\ last_call' = Call("requires_approval", action,
                         IF rules.approvals_tail = "null"
                         THEN Raised("TypeError")
                         ELSE \E n \in 1..Len(rules.approval_required_for) :
                                  rules.approval_required_for[n] = action)
    /\ calls' = calls + 1
    /\ rules' = rules_after_query(rules)
    /\ UNCHANGED <<audit_log, clock, memVars, affVars, turnVars, cmdVars, lifeVars>>

\* Mutant: the approval check comes first
EnforceOutcome_approval_first(decision) ==
    IF decision.requires_approval THEN "raise requires approval"
    ELSE IF ~decision.allowed THEN "raise forbidden"
    ELSE "True"

\* enforce after allows(): True, or the GovernorViolation it raises, named by
\* its message
EnforceOutcome(decision) ==
    IF ~decision.allowed THEN "raise forbidden"
    ELSE IF decision.requires_approval THEN "raise requires approval"
    ELSE "True"

\* Mutant: the decision is tested first and only a call that returns True is
\* recorded
log_after_enforce_on_success(log, now, path, decision) ==
    IF EnforceOutcome(decision) = "True"
    THEN _audit(log, now, "permission_check", path, decision)
    ELSE log

\* The log once enforce is over: its first statement is the call of allows,
\* which records the decision before enforce looks at it
log_after_enforce(log, now, path, decision) ==
    _audit(log, now, "permission_check", path, decision)

enforce(permission_path) ==
    /\ calls < MaxCalls
    /\ IF _requires_approval_raises(rules, permission_path)
       THEN /\ last_call' = Call("enforce", permission_path, "raise TypeError")
            /\ UNCHANGED <<audit_log, clock>>
       ELSE LET decision == GovernorDecision(rules, permission_path)
            IN  /\ audit_log' = log_after_enforce(audit_log, clock,
                                                  permission_path, decision)
                /\ last_call' = Call("enforce", permission_path,
                                     EnforceOutcome(decision))
                /\ clock' = clock + 1
    /\ calls' = calls + 1
    /\ rules' = rules_after_query(rules)
    /\ UNCHANGED <<memVars, affVars, turnVars, cmdVars, lifeVars>>

----------------------------------------------------------------------------
(* MemoryCore *)

Axes == {"happiness", "sadness", "curiosity", "affinity"}

\* EmotionState.__init__ and UserState.emotion_state: the initial vector
InitialEmotion == [happiness |-> 500, sadness |-> 200, curiosity |-> 300,
                   affinity |-> 0]

NoEmotion == [k \in {} |-> 0]

NoSummary == <<>>

\* importance_threshold=0.6, the constructor's default and MikaAssistant's choice
importance_threshold == 600

MemoryItem(timestamp, user_input, assistant_response, intent, emotion, importance, summary) ==
    [timestamp |-> timestamp, user_input |-> user_input,
     assistant_response |-> assistant_response, intent |-> intent,
     emotion |-> emotion, importance |-> importance, summary |-> summary]

\* The persisted file: whether it exists, whether it decodes to a mapping,
\* whether each of its two lists builds MemoryItems, and the lists.
File(exists, json_ok, short_ok, long_ok, st, lt) ==
    [exists |-> exists, json_ok |-> json_ok, short_ok |-> short_ok,
     long_ok |-> long_ok, short_term |-> st, long_term |-> lt]

NoFile == File(FALSE, FALSE, FALSE, FALSE, <<>>, <<>>)

GarbageFile == File(TRUE, FALSE, FALSE, FALSE, <<>>, <<>>)

SavedFile(st, lt) == File(TRUE, TRUE, TRUE, TRUE, st, lt)

\* The i-th of n items of a file written by an earlier session
StoredItem(i, n, importance) ==
    MemoryItem(i - n - 1, <<"earlier">>, <<"reply">>, "conversation",
               InitialEmotion, importance, NoSummary)

StoredShort(n) == [i \in 1..n |-> StoredItem(i, n, 500)]

StoredLongs == { <<>>, <<StoredItem(1, 1, 700)>>, <<StoredItem(1, 1, 300)>> }

Files ==
    {NoFile, GarbageFile}
    \cup {SavedFile(StoredShort(n), lt) : n \in 0..MaxFileItems, lt \in StoredLongs}
    \cup {File(TRUE, TRUE, TRUE, FALSE, StoredShort(n), <<>>) : n \in 1..MaxFileItems}
    \cup {File(TRUE, TRUE, FALSE, TRUE, <<>>, <<StoredItem(1, 1, 700)>>)}

\* _load: nothing is read from a missing file; an exception leaves what was
\* assigned before it was raised.
_load(file) ==
    IF ~file.exists \/ ~file.json_ok \/ ~file.short_ok
    THEN [short_term |-> <<>>, long_term |-> <<>>]
    ELSE IF ~file.long_ok
    THEN [short_term |-> file.short_term, long_term |-> <<>>]
    ELSE [short_term |-> file.short_term, long_term |-> file.long_term]

\* save: the file is rewritten whole; a failed write is logged and leaves the
\* file as it was or cut short.
SaveOutcomes(st, lt, old) == {SavedFile(st, lt), old, GarbageFile}

\* Mutant: a failed write raises out of save
SaveReturn_propagates(written, st, lt) ==
    IF written = SavedFile(st, lt) THEN <<>> ELSE <<"raise OSError">>

\* What save hands back to its caller once the file is as `written`: None,
\* since its except clause catches every failure of the write
SaveReturn(written, st, lt) == <<>>

\* Mutant: the item is appended twice
short_term_appended_twice(st, item, limit) == Append(Append(st, item), item)

\* Mutant: the newest item is dropped when the list is over its limit
short_term_drop_newest(st, item, limit) ==
    IF Len(st) + 1 > limit THEN st ELSE Append(st, item)

\* add_interaction: append, then evict the oldest when over the limit
short_term_after_add(st, item, limit) ==
    IF Len(Append(st, item)) > limit
    THEN Tail(Append(st, item))
    ELSE Append(st, item)

\* Mutant: the boundary itself is not admitted
long_term_strictly_above(lt, item, threshold) ==
    IF item.importance > threshold THEN Append(lt, item) ELSE lt

\* Mutant: long_term is a window too, and admission pushes its oldest item out
long_term_evicting(lt, item, threshold) ==
    IF item.importance < threshold THEN lt
    ELSE IF lt = <<>> THEN <<item>>
    ELSE Append(Tail(lt), item)

\* add_interaction: admission to long_term
long_term_after_add(lt, item, threshold) ==
    IF item.importance >= threshold THEN Append(lt, item) ELSE lt

RECURSIVE SumAxis(_, _)
SumAxis(st, k) == IF st = <<>> THEN 0 ELSE st[1].emotion[k] + SumAxis(Tail(st), k)

\* get_emotional_trend: the mean of each axis over short_term (whole
\* thousandths), the empty mapping when short_term is empty
get_emotional_trend(st) ==
    IF st = <<>> THEN NoEmotion
    ELSE [k \in Axes |-> SumAxis(st, k) \div Len(st)]

\* round(importance, 2)
Round2(x) == ((x + 5) \div 10) * 10

SummaryItem(now, st, lt, max_items) ==
    MemoryItem(now, <<"(summary)">>, <<"(summary)">>, "memory_summary",
               get_emotional_trend(st), 1000,
               [i \in 1..Len(LastSlice(lt, max_items)) |->
                   <<LastSlice(lt, max_items)[i].intent,
                     Round2(LastSlice(lt, max_items)[i].importance)>>])

\* 0.59 and 0.6: either side of the threshold
Importances == {590, 600}

MaxItemsChoices == {0, 1}

\* What add_interaction does to the store, its file and the clock
AddInteraction(user_input, assistant_response, intent, emotion, importance) ==
    /\ LET item == MemoryItem(clock, user_input, assistant_response, intent,
                              emotion, importance, NoSummary)
       IN  /\ short_term' = short_term_after_add(short_term, item, short_term_limit)
           /\ long_term' = long_term_after_add(long_term, item, importance_threshold)
           /\ added' = Append(added, item)
    /\ disk' \in SaveOutcomes(short_term', long_term', disk)
    /\ clock' = clock + 1
    /\ UNCHANGED <<short_term_limit, loaded>>

add_interaction(user_input, assistant_response, intent, emotion, importance) ==
    /\ Len(added) < MaxAdds
    /\ AddInteraction(user_input, assistant_response, intent, emotion, importance)
    /\ last_call' = Call("add_interaction", importance,
                         SaveReturn(disk', short_term', long_term'))
    /\ UNCHANGED <<rules, audit_log, calls, affVars, turnVars, cmdVars, lifeVars>>

\* What summarize_long_term does to the store, its file and the clock
SummarizeLongTerm(max_items) ==
    /\ IF Len(long_term) <= max_items
       THEN UNCHANGED <<long_term, disk, clock>>
       ELSE /\ long_term' = <<SummaryItem(clock, short_term, long_term, max_items)>>
            /\ disk' \in SaveOutcomes(short_term, long_term', disk)
            /\ clock' = clock + 1
    /\ UNCHANGED <<short_term_limit, short_term, loaded, added>>

\* The consolidations are counted, so that the clock stays bounded
summarize_long_term(max_items) ==
    /\ Len(long_term) > max_items => calls < MaxSummaries
    /\ SummarizeLongTerm(max_items)
    /\ calls' = IF Len(long_term) > max_items THEN calls + 1 ELSE calls
    /\ last_call' = Call("summarize_long_term", max_items,
                         IF Len(long_term) > max_items
                         THEN SaveReturn(disk', short_term', long_term')
                         ELSE <<>>)
    /\ UNCHANGED <<rules, audit_log, affVars, turnVars, cmdVars, lifeVars>>

----------------------------------------------------------------------------
(* EmotionState *)

\* Mutant: the floor at 0.0 is missing
Clamp01_no_floor(x) == Min(1000, x)

\* max(0.0, min(1.0, x))
Clamp01(x) == Max(0, Min(1000, x))

\* delta * factor, both in thousandths
Scaled(delta, factor) == (delta * factor) \div 1000

AdjustedEmotions(e, delta) ==
    [happiness |-> Clamp01(e.happiness + Scaled(delta, 100)),
     sadness |-> Clamp01(e.sadness - Scaled(delta, 50)),
     curiosity |-> Clamp01(e.curiosity + Scaled(delta, 20)),
     affinity |-> Clamp01(e.affinity + Scaled(delta, 10))]

\* The arguments the callers pass: -20.0, 0.0, 3.0
Deltas == {-20000, 0, 3000}

EmotionNames == {"sadness", "anger"}

EmotionValues == {-500, 400, 1500}

RewardPoints == {-1, 0, 1}

adjust_emotions(delta) ==
    /\ calls < MaxCalls
    /\ emotion_state' = AdjustedEmotions(emotion_state, delta)
    /\ last_call' = Call("adjust_emotions", delta, <<>>)
    /\ calls' = calls + 1
    /\ UNCHANGED <<rules, audit_log, clock, memVars, cfg_emotion, score, turnVars, cmdVars, lifeVars>>

update_emotion(emotion, value) ==
    /\ calls < MaxCalls
    /\ emotion_state' = IF emotion \in DOMAIN emotion_state
                        THEN [emotion_state EXCEPT ![emotion] = Clamp01(value)]
                        ELSE emotion_state
    /\ last_call' = Call("update_emotion", <<emotion, value>>, <<>>)
    /\ calls' = calls + 1
    /\ UNCHANGED <<rules, audit_log, clock, memVars, cfg_emotion, score, turnVars, cmdVars, lifeVars>>

----------------------------------------------------------------------------
(* RewardSystem and importance *)

\* apply_reward's coupling into Config.state.emotion_state
RewardedEmotion(e, points) ==
    IF points > 0 THEN [e EXCEPT !.happiness = Min(1000, e.happiness + 50)]
    ELSE IF points < 0 THEN [e EXCEPT !.sadness = Min(1000, e.sadness + 50)]
    ELSE e

Abs(x) == IF x < 0 THEN -x ELSE x

\* The score is kept within MaxScore of zero, so that it stays bounded
apply_reward(points) ==
    /\ Abs(score + points) <= MaxScore
    /\ score' = score + points
    /\ cfg_emotion' = RewardedEmotion(cfg_emotion, points)
    /\ last_call' = Call("apply_reward", points, <<>>)
    /\ UNCHANGED <<rules, audit_log, clock, calls, memVars, emotion_state, turnVars, cmdVars, lifeVars>>

PrivilegedIntents == {"gratitude", "emotion_check", "conversation"}

\* sentiment is <<>> for an empty mapping, else <<compound>>
_estimate_importance(intent, sentiment, emotion) ==
    Min(Abs(emotion.happiness - 500) + Abs(emotion.sadness) + Abs(emotion.curiosity)
          + (IF intent \in PrivilegedIntents THEN 200 ELSE 0)
          + (IF sentiment # <<>> THEN (Abs(sentiment[1]) * 3) \div 10 ELSE 0),
        1000)

----------------------------------------------------------------------------
(* Config.commands and the inputs *)

\* Config.commands: the configured command keywords
CommandKeys == { <<"set", "timer">>, <<"list", "projects">>, <<"thank", "you">>,
                 <<"hi">>, <<"how", "are", "you">>, <<"i'm", "good">> }

\* What listen_fn returns, stripped; <<>> is the empty string
Inputs == { <<"set", "timer">>, <<"set", "timer", "5", "minutes">>,
            <<"Thank", "You">>, <<"i", "feel", "sad">> }

LowerWord(w) == CASE w = "Thank" -> "thank" [] w = "You" -> "you" [] OTHER -> w

\* str.lower()
Lower(text) == [i \in 1..Len(text) |-> LowerWord(text[i])]

----------------------------------------------------------------------------
(* CommandProcessor *)

max_history == 5

\* CommandProcessor.__init__: an empty history, last_intent None
NoContext == [history |-> <<>>, last_intent |-> "None"]

\* _update_context: the history keeps the intent of each entry
_update_context(ctx, intent) ==
    [history |-> IF Len(ctx.history) + 1 > max_history
                 THEN Tail(Append(ctx.history, intent))
                 ELSE Append(ctx.history, intent),
     last_intent |-> intent]

ChainedAcknowledgment == <<"You're welcome, Yuu! Timer's all set.">>

\* _handle_chained_intent: <<>> is None
_handle_chained_intent(ctx, intent) ==
    IF ctx.last_intent = "set timer" /\ intent \in {"thank you", "hi"}
    THEN ChainedAcknowledgment
    ELSE <<>>

\* personality["reward_system"], a part of each list
PositiveKeywords == { <<"good">>, <<"thank", "you">> }
NegativeKeywords == { <<"bad">>, <<"you", "failed">> }
IntensityPhrases == { <<"thank", "you">>, <<"you", "failed">> }

\* intensity_weights: 0.5 and -1.0
IntensityWeight(phrase) == IF phrase = <<"thank", "you">> THEN 500 ELSE -1000

RECURSIVE AdjustedByPhrases(_, _, _)
AdjustedByPhrases(e, phrases, command) ==
    IF phrases = {} THEN e
    ELSE LET ph == CHOOSE x \in phrases : TRUE
             rest == AdjustedByPhrases(e, phrases \ {ph}, command)
         IN  IF Occurs(ph, Lower(command))
             THEN AdjustedEmotions(rest, IntensityWeight(ph))
             ELSE rest

\* evaluate_user_response as fallback_chat calls it (the compound lands in
\* reward_system_obj, the sentiment override stays 0.0): what it does to the
\* EmotionState
EvaluatedEmotions(e, command) ==
    LET pos == Cardinality({k \in PositiveKeywords : Occurs(k, Lower(command))})
        neg == Cardinality({k \in NegativeKeywords : Occurs(k, Lower(command))})
        e1 == AdjustedByPhrases(e, IntensityPhrases, command)
        e2 == IF pos > 0 THEN AdjustedEmotions(e1, pos * 500) ELSE e1
    IN  IF neg > 0 THEN AdjustedEmotions(e2, -(neg * 500)) ELSE e2

\* The commands and intents process() is called with
ProcessCommands == { <<"set", "timer", "5", "minutes">>, <<"Thank", "You">>,
                     <<"that", "was", "good">>, <<"you", "failed">> }

ProcessIntents == {"set timer", "thank you", "conversation"}

\* process: the context is updated before the chained intent is looked for;
\* then the handler of the first keyword the command contains is awaited,
\* which is the dotted name Config.commands holds, a str: TypeError; without
\* a keyword fallback_chat unpacks the three-key result of
\* evaluate_user_response into two names: ValueError.
process(command, intent) ==
    /\ calls < MaxCalls
    /\ context' = _update_context(context, intent)
    /\ LET chained == _handle_chained_intent(context', intent)
           keyword == \E k \in CommandKeys : Occurs(k, Lower(command))
       IN  /\ emotion_state' = IF chained = <<>> /\ ~keyword
                               THEN EvaluatedEmotions(emotion_state, command)
                               ELSE emotion_state
           /\ last_call' = Call("process", <<command, intent>>,
                                IF chained # <<>> THEN chained
                                ELSE IF keyword THEN <<"raise TypeError">>
                                ELSE <<"raise ValueError">>)
    /\ calls' = calls + 1
    /\ UNCHANGED <<rules, audit_log, clock, memVars, cfg_emotion, score,
                   turnVars, lifeVars>>

----------------------------------------------------------------------------
(* MikaAssistant: the collaborators and the turn *)

\* What TextUnderstandingLayer.analyze may return: (intent, metadata), of
\* which the pipeline reads metadata.get("sentiment", {})
Analyses == { [intent |-> "conversation", sentiment |-> <<0>>],
              [intent |-> "greeting", sentiment |-> <<-400>>],
              [intent |-> "unknown", sentiment |-> <<>>] }

ReasonRefusal == <<"I'm not allowed to reason right now.">>
CommandRefusal == <<"I'm not permitted to execute that command.">>
CommandApology == <<"I couldn't complete that command.">>
NoModelReply == <<"I'm listening. Tell me more.">>
EmptyCompletionReply == <<"I'm listening.">>
Completion == <<"(completion)">>
Online == <<"MIKA is online.">>

\* bool(decision): GovernorDecision is a dataclass that defines neither
\* __bool__ nor __len__, so every instance is truthy
Truthy(decision) == TRUE

\* self.command_processor.resolve_handler: CommandProcessor defines no such
\* attribute, so the lookup raises AttributeError inside the try block
resolve_handler_raises == TRUE

IsNumber(w) == w \in {"5"}

\* CommandProcessor.set_timer on the words of the lowered command
set_timer(command) ==
    LET parts == Lower(command)
    IN  IF Len(parts) < 3 \/ parts[1] # "set" \/ parts[2] # "timer"
        THEN <<"I didn't catch that. Please say 'set timer X minutes'.">>
        ELSE IF ~IsNumber(parts[3])
        THEN <<"Invalid timer format. Try 'set timer 5 minutes'.">>
        ELSE <<"Timer set for", parts[3], "minutes!">>

DistressWords == {"sad", "stressed", "upset"}

\* InternalFeedback.evaluate_response: the adjusted response
evaluate_response(user_text, response) ==
    IF /\ "empathetic" \in core_traits
       /\ \E i \in 1..Len(user_text) : Lower(user_text)[i] \in DistressWords
    THEN Append(response, " I'm here with you.")
    ELSE response

\* The locals of a handle_input call, with what became of it: which
\* collaborator raised and whether the exception left handle_input
NoTurn == [text |-> <<>>, intent |-> "", sentiment |-> <<>>,
           emotion_before |-> NoEmotion, reason_decision |-> <<>>,
           tool_decision |-> <<>>, handler_ran |-> FALSE,
           response |-> <<>>, adjusted |-> <<>>,
           failed |-> "none", uncaught |-> FALSE]

Snapshot == [score |-> score, short_term |-> short_term,
             long_term |-> long_term, audits |-> Len(audit_log),
             added |-> Len(added)]

\* What a call of allows() from the pipeline does to the engine
AllowsFromTurn(path) ==
    /\ audit_log' = _audit(audit_log, clock, "permission_check", path,
                           GovernorDecision(rules, path))
    /\ rules' = rules_after_query(rules)
    /\ UNCHANGED <<last_call, calls>>

\* start(): the greeting before the loop
Start ==
    /\ pc = "start"
    /\ pc' = "idle"
    /\ spoken' = Online
    /\ UNCHANGED <<govVars, memVars, affVars, core_traits, model, turn, trace,
                   turn0, turns, cmdVars, lifeVars>>

\* while not self.shutdown_event.is_set(): the flag is read here and nowhere
\* else in the loop
LoopHead ==
    /\ pc = "idle"
    /\ pc' = IF shutdown_event THEN "finally" ELSE "listen"
    /\ UNCHANGED <<govVars, memVars, affVars, core_traits, model, turn, trace,
                   turn0, spoken, turns, cmdVars, lifeVars>>

TurnStages == {"gate", "analyze", "command", "generate", "adjust", "record",
               "speak"}

\* Mutant: the response is spoken before the memory write
StageAfter_speak_first(stage) ==
    CASE stage = "gate" -> "analyze"
      [] stage \in {"command", "generate"} -> "adjust"
      [] stage = "adjust" -> "speak"
      [] stage = "speak" -> "record"
      [] stage = "record" -> "idle"

\* The statement order of handle_input: what follows each stage once it is
\* done; after speak the call returns to the loop
StageAfter(stage) ==
    CASE stage = "gate" -> "analyze"
      [] stage \in {"command", "generate"} -> "adjust"
      [] stage = "adjust" -> "record"
      [] stage = "record" -> "speak"
      [] stage = "speak" -> "idle"

\* Mutant: handle_input is started without being awaited, so the loop is back
\* at listen_fn while the turn runs
LoopAtListen_without_await(p) == p \in TurnStages \cup {"listen"}

\* The loop is at `await self.listen_fn()`: `await self.handle_input(...)`
\* has returned for every earlier input
LoopAtListen(p) == p = "listen"

\* listen_fn() returns: `continue` on an empty input, else handle_input begins
Listen(user_text) ==
    /\ LoopAtListen(pc)
    /\ turns < MaxTurns
    /\ IF user_text = <<>>
       THEN /\ pc' = "idle"
            /\ UNCHANGED <<turn, trace, turn0, spoken, turns, in_flight>>
       ELSE /\ pc' = "gate"
            /\ turn' = [NoTurn EXCEPT !.text = user_text]
            /\ trace' = <<>>
            /\ turn0' = Snapshot
            /\ spoken' = <<>>
            /\ turns' = turns + 1
            /\ in_flight' = in_flight + 1
    /\ UNCHANGED <<govVars, memVars, affVars, core_traits, model, cmdVars,
                   shutdown_event, tasks, flush, summary_item>>

\* if not self.governor.allows("cognition.reason"): speak the refusal, return
GateReasoning ==
    /\ pc = "gate"
    /\ AllowsFromTurn(CognitionReason)
    /\ clock' = clock + 1
    /\ turn' = [turn EXCEPT
                  !.reason_decision = <<GovernorDecision(rules, CognitionReason)>>]
    /\ IF ~Truthy(GovernorDecision(rules, CognitionReason))
       THEN /\ spoken' = ReasonRefusal
            /\ trace' = trace \o <<"gate", "respond">>
            /\ pc' = "idle"
            /\ in_flight' = in_flight - 1
       ELSE /\ trace' = Append(trace, "gate")
            /\ pc' = StageAfter("gate")
            /\ UNCHANGED <<spoken, in_flight>>
    /\ UNCHANGED <<memVars, affVars, core_traits, model, turn0, turns, cmdVars,
                   shutdown_event, tasks, flush, summary_item>>

\* nlp.analyze off the loop's thread, then the affect snapshot
Analyze(a) ==
    /\ pc = "analyze"
    /\ turn' = [turn EXCEPT !.intent = a.intent, !.sentiment = a.sentiment,
                            !.emotion_before = emotion_state]
    /\ trace' = Append(trace, "analyze")
    /\ pc' = IF Lower(turn.text) \in CommandKeys THEN "command" ELSE "generate"
    /\ UNCHANGED <<govVars, memVars, affVars, core_traits, model, turn0,
                   spoken, turns, cmdVars, lifeVars>>

\* An exception that nothing in handle_input catches: it leaves handle_input
\* and the loop of start(), and the wrapper of handle_exceptions logs it and
\* returns None, so start() is over and main() is in its finally block
RaisedOutOfTurn(who, stage) ==
    /\ turn' = [turn EXCEPT !.failed = who, !.uncaught = TRUE]
    /\ trace' = Append(trace, stage)
    /\ pc' = "finally"
    /\ in_flight' = in_flight - 1
    /\ UNCHANGED <<govVars, memVars, affVars, core_traits, model, turn0,
                   spoken, turns, cmdVars, shutdown_event, tasks, flush, summary_item>>

\* nlp.analyze raises: line 149 has no try around it
AnalyzeRaises ==
    /\ pc = "analyze"
    /\ RaisedOutOfTurn("analyzer", "analyze")

\* The command path: the second gate, then the handler inside try/except
RouteCommand ==
    /\ pc = "command"
    /\ AllowsFromTurn(ToolsExecute)
    /\ clock' = clock + 1
    /\ LET decision == GovernorDecision(rules, ToolsExecute)
           refused == ~Truthy(decision)
           raised == resolve_handler_raises
           points == IF refused THEN 0 ELSE IF raised THEN -1 ELSE 1
       IN  /\ turn' = [turn EXCEPT
                         !.tool_decision = <<decision>>,
                         !.handler_ran = ~refused /\ ~raised,
                         !.failed = IF ~refused /\ raised THEN "handler" ELSE "none",
                         !.response = IF refused THEN CommandRefusal
                                      ELSE IF raised THEN CommandApology
                                      ELSE set_timer(turn.text)]
           /\ score' = score + points
           /\ cfg_emotion' = RewardedEmotion(cfg_emotion, points)
    /\ trace' = Append(trace, "command")
    /\ pc' = StageAfter("command")
    /\ UNCHANGED <<memVars, emotion_state, core_traits, model, turn0, spoken,
                   turns, cmdVars, lifeVars>>

\* The generative path: _llm_response off the loop's thread
RouteGenerative(text) ==
    /\ pc = "generate"
    /\ text \in (IF model = "none" THEN {NoModelReply}
                 ELSE {Completion, EmptyCompletionReply})
    /\ turn' = [turn EXCEPT !.response = text]
    /\ trace' = Append(trace, "generate")
    /\ pc' = StageAfter("generate")
    /\ UNCHANGED <<govVars, memVars, affVars, core_traits, model, turn0,
                   spoken, turns, cmdVars, lifeVars>>

\* self.model(...) raises inside _llm_response: line 167 has no try around it
GenerateRaises ==
    /\ pc = "generate"
    /\ model # "none"
    /\ RaisedOutOfTurn("generator", "generate")

\* internal_feedback.evaluate_response off the loop's thread
AdjustResponse ==
    /\ pc = "adjust"
    /\ turn' = [turn EXCEPT !.adjusted = evaluate_response(turn.text, turn.response)]
    /\ trace' = Append(trace, "adjust")
    /\ pc' = StageAfter("adjust")
    /\ UNCHANGED <<govVars, memVars, affVars, core_traits, model, turn0,
                   spoken, turns, cmdVars, lifeVars>>

\* Mutant: the memory write reads the affect vector that apply_reward writes,
\* as it is at the time of the write
affect_for_memory_live(emotion_before, config_affect) == config_affect

\* The affect that handle_input passes to _estimate_importance and to
\* add_interaction: its local emotion_before, a copy made by
\* emotional_summary()
affect_for_memory(emotion_before, config_affect) == emotion_before

\* _estimate_importance on the snapshot, then memory.add_interaction
Record ==
    /\ pc = "record"
    /\ LET affect == affect_for_memory(turn.emotion_before, cfg_emotion)
       IN  AddInteraction(turn.text, turn.adjusted, turn.intent, affect,
                          _estimate_importance(turn.intent, turn.sentiment,
                                               affect))
    /\ trace' = Append(trace, "record")
    /\ pc' = StageAfter("record")
    /\ UNCHANGED <<rules, audit_log, last_call, calls, affVars, core_traits,
                   model, turn, turn0, spoken, turns, cmdVars, lifeVars>>

\* speak(adjusted_response); handle_input returns to the loop head
Respond ==
    /\ pc = "speak"
    /\ spoken' = turn.adjusted
    /\ trace' = Append(trace, "respond")
    /\ pc' = StageAfter("speak")
    /\ in_flight' = in_flight - 1
    /\ UNCHANGED <<govVars, memVars, affVars, core_traits, model, turn, turn0,
                   turns, cmdVars, shutdown_event, tasks, flush, summary_item>>

----------------------------------------------------------------------------
(* main(), the signal handler and shutdown() *)

\* summarize_long_term's default: max_items=20
DefaultMaxItems == 20

NoFlush == [summarized |-> 0, saved |-> 0]

\* A SIGINT or SIGTERM while the loop runs: _signal_handler creates a task
\* that will run shutdown()
Signal ==
    /\ pc # "exited"
    /\ Len(tasks) < MaxSignals
    /\ tasks' = Append(tasks, "created")
    /\ UNCHANGED <<govVars, memVars, affVars, turnVars, cmdVars,
                   shutdown_event, in_flight, flush, summary_item>>

\* shutdown() in a task, up to its first await: return if the flag is set,
\* else set it and hand summarize_long_term to a thread
TaskBegin(i) ==
    /\ pc # "exited"
    /\ tasks[i] = "created"
    /\ tasks' = [tasks EXCEPT ![i] = IF shutdown_event THEN "done" ELSE "summarize"]
    /\ shutdown_event' = TRUE
    /\ UNCHANGED <<govVars, memVars, affVars, turnVars, cmdVars, in_flight, flush, summary_item>>

\* Where a shutdown() task stands once the summarize thread has built its
\* item, and once the thread is done: a task cancelled meanwhile does not go
\* on to save
Replacing(stage) == IF stage = "summarize" THEN "replace" ELSE "replace, cancelled"

AfterSummarize(stage) ==
    IF stage \in {"summarize", "replace"} THEN "save" ELSE "cancelled"

\* The thread runs summarize_long_term() while the event loop goes on with
\* its own task. Up to the construction of summary_item: return when
\* long_term is within the limit, else build the item from the lists as the
\* thread finds them
TaskSummarize(i) ==
    /\ tasks[i] \in {"summarize", "summarize, cancelled"}
    /\ IF Len(long_term) <= DefaultMaxItems
       THEN /\ tasks' = [tasks EXCEPT ![i] = AfterSummarize(tasks[i])]
            /\ flush' = [flush EXCEPT !.summarized = @ + 1]
            /\ UNCHANGED <<summary_item, clock>>
       ELSE /\ summary_item' = <<SummaryItem(clock, short_term, long_term,
                                             DefaultMaxItems)>>
            /\ clock' = clock + 1
            /\ tasks' = [tasks EXCEPT ![i] = Replacing(tasks[i])]
            /\ UNCHANGED flush
    /\ UNCHANGED <<rules, audit_log, last_call, calls, memVars, affVars,
                   turnVars, cmdVars, shutdown_event, in_flight>>

\* The thread goes on: self.long_term = [summary_item], then self.save()
TaskReplace(i) ==
    /\ tasks[i] \in {"replace", "replace, cancelled"}
    /\ long_term' = summary_item
    /\ disk' \in SaveOutcomes(short_term, long_term', disk)
    /\ summary_item' = <<>>
    /\ tasks' = [tasks EXCEPT ![i] = AfterSummarize(tasks[i])]
    /\ flush' = [flush EXCEPT !.summarized = @ + 1]
    /\ UNCHANGED <<govVars, short_term_limit, short_term, loaded, added,
                   affVars, turnVars, cmdVars, shutdown_event, in_flight>>

\* The thread runs save()
TaskSave(i) ==
    /\ tasks[i] = "save"
    /\ disk' \in SaveOutcomes(short_term, long_term, disk)
    /\ tasks' = [tasks EXCEPT ![i] = "done"]
    /\ flush' = [flush EXCEPT !.saved = @ + 1]
    /\ UNCHANGED <<govVars, short_term_limit, short_term, long_term, loaded,
                   added, affVars, turnVars, cmdVars, shutdown_event, in_flight,
                   summary_item>>

\* main() returns and asyncio.run cancels the tasks still pending: one that
\* has not begun never runs, one that awaits the summarize thread gets
\* CancelledError at that await while the thread finishes, and a thread that
\* save was handed to finishes too
CancelledAt(stage) ==
    CASE stage = "created" -> "cancelled"
      [] stage = "summarize" -> "summarize, cancelled"
      [] stage = "replace" -> "replace, cancelled"
      [] OTHER -> stage

MainReturns ==
    /\ pc' = "exited"
    /\ tasks' = [i \in DOMAIN tasks |-> CancelledAt(tasks[i])]

\* finally: await assistant.shutdown(), up to its first await
MainShutdown ==
    /\ pc = "finally"
    /\ IF shutdown_event
       THEN MainReturns /\ UNCHANGED shutdown_event
       ELSE pc' = "shutdown: summarize" /\ shutdown_event' = TRUE /\ UNCHANGED tasks
    /\ UNCHANGED <<govVars, memVars, affVars, core_traits, model, turn, trace,
                   turn0, spoken, turns, cmdVars, in_flight, flush, summary_item>>

MainSummarize ==
    /\ pc = "shutdown: summarize"
    /\ SummarizeLongTerm(DefaultMaxItems)
    /\ pc' = "shutdown: save"
    /\ flush' = [flush EXCEPT !.summarized = @ + 1]
    /\ UNCHANGED <<rules, audit_log, last_call, calls, affVars, core_traits,
                   model, turn, trace, turn0, spoken, turns, cmdVars,
                   shutdown_event, tasks, in_flight, summary_item>>

MainSave ==
    /\ pc = "shutdown: save"
    /\ disk' \in SaveOutcomes(short_term, long_term, disk)
    /\ MainReturns
    /\ flush' = [flush EXCEPT !.saved = @ + 1]
    /\ UNCHANGED <<govVars, short_term_limit, short_term, long_term, loaded,
                   added, affVars, core_traits, model, turn, trace, turn0,
                   spoken, turns, cmdVars, shutdown_event, in_flight,
                   summary_item>>

----------------------------------------------------------------------------
(* Specifications *)

\* MikaAssistant's choice: short_term_limit=10
AssistantShortTermLimit == 10

InitGovernor(ruleSet) ==
    /\ rules \in ruleSet
    /\ audit_log = <<>>
    /\ clock = 0
    /\ last_call = NoCall
    /\ calls = 0

InitMemory(files, limits) ==
    /\ short_term_limit \in limits
    /\ disk \in files
    /\ loaded = _load(disk)
    /\ short_term = loaded.short_term
    /\ long_term = loaded.long_term
    /\ added = <<>>

InitAffect ==
    /\ emotion_state = InitialEmotion
    /\ cfg_emotion = InitialEmotion
    /\ score = 0

InitTurn(traits, models, at) ==
    /\ core_traits \in traits
    /\ model \in models
    /\ pc = at
    /\ turn = NoTurn
    /\ trace = <<>>
    /\ turn0 = Snapshot
    /\ spoken = <<>>
    /\ turns = 0
    /\ context = NoContext
    /\ shutdown_event = FALSE
    /\ tasks = <<>>
    /\ in_flight = 0
    /\ flush = NoFlush
    /\ summary_item = <<>>

\* The engine alone, under any sequence of calls of its public methods
InitEngine ==
    /\ InitGovernor(RuleTrees)
    /\ InitMemory({NoFile}, {AssistantShortTermLimit})
    /\ InitAffect
    /\ InitTurn({{}}, {"none"}, "unused")

NextEngine ==
    \/ \E p \in Paths : allows(p)
    \/ \E k \in ClampKeys, v \in ClampValues : clamp("personality", k, v)
    \/ \E p \in Paths : requires_approval(p)
    \/ \E p \in Paths : enforce(p)

SpecEngine == InitEngine /\ [][NextEngine]_vars

\* The engine alone, loaded from a malformed rule file
InitMalformed ==
    /\ InitGovernor(MalformedRuleTrees)
    /\ InitMemory({NoFile}, {AssistantShortTermLimit})
    /\ InitAffect
    /\ InitTurn({{}}, {"none"}, "unused")

SpecMalformed == InitMalformed /\ [][NextEngine]_vars

\* The store alone, constructed over any file, under any sequence of calls
InitStore ==
    /\ InitGovernor({Rules(PermFull, <<>>, NoClamp)})
    /\ InitMemory(Files, 1..MaxLimit)
    /\ InitAffect
    /\ InitTurn({{}}, {"none"}, "unused")

NextStore ==
    \/ \E i \in Importances :
           add_interaction(<<"input">>, <<"reply">>, "conversation",
                           InitialEmotion, i)
    \/ \E m \in MaxItemsChoices : summarize_long_term(m)

SpecStore == InitStore /\ [][NextStore]_vars

\* The command processor alone, under any sequence of calls of process
InitCommands ==
    /\ InitGovernor({Rules(PermFull, <<>>, NoClamp)})
    /\ InitMemory({NoFile}, {AssistantShortTermLimit})
    /\ InitAffect
    /\ InitTurn({{}}, {"none"}, "unused")

NextCommands == \E c \in ProcessCommands, i \in ProcessIntents : process(c, i)

SpecCommands == InitCommands /\ [][NextCommands]_vars

\* The two affect vectors, under any sequence of calls that mutate them
InitAffectApi ==
    /\ InitGovernor({Rules(PermFull, <<>>, NoClamp)})
    /\ InitMemory({NoFile}, {AssistantShortTermLimit})
    /\ InitAffect
    /\ InitTurn({{}}, {"none"}, "unused")

NextAffect ==
    \/ \E d \in Deltas : adjust_emotions(d)
    \/ \E e \in EmotionNames, v \in EmotionValues : update_emotion(e, v)
    \/ \E p \in RewardPoints : apply_reward(p)

SpecAffect == InitAffectApi /\ [][NextAffect]_vars

\* The assistant's turns, with collaborators that do not fail and no signal
Init ==
    /\ InitGovernor(AssistantRuleTrees)
    /\ InitMemory({NoFile}, {AssistantShortTermLimit})
    /\ InitAffect
    /\ InitTurn({{}, {"empathetic"}}, {"none", "llama"}, "start")

Next ==
    \/ Start
    \/ LoopHead
    \/ \E t \in Inputs \cup {<<>>} : Listen(t)
    \/ GateReasoning
    \/ \E a \in Analyses : Analyze(a)
    \/ RouteCommand
    \/ \E t \in {NoModelReply, Completion, EmptyCompletionReply} : RouteGenerative(t)
    \/ AdjustResponse
    \/ Record
    \/ Respond

Spec == Init /\ [][Next]_vars

\* The same turns over a store that starts empty or was loaded from a file
\* whose short_term list is full
FullShortTerm == SavedFile(StoredShort(AssistantShortTermLimit), <<>>)

InitTurns ==
    /\ InitGovernor(AssistantRuleTrees)
    /\ InitMemory({NoFile, FullShortTerm}, {AssistantShortTermLimit})
    /\ InitAffect
    /\ InitTurn({{"empathetic"}}, {"llama"}, "start")

SpecTurns == InitTurns /\ [][Next]_vars

\* main(): start() and its turns, with collaborators that may raise, signals
\* at any moment, and the finally block
MainInputs == { <<"set", "timer">>, <<"i", "feel", "sad">>, <<>> }

MainAnalyses == { [intent |-> "conversation", sentiment |-> <<0>>] }

\* A file left by earlier runs whose long_term list is one item over the
\* limit of the consolidation
OverfullLongTerm ==
    [i \in 1..(DefaultMaxItems + 1) |-> StoredItem(i, DefaultMaxItems + 1, 900)]

InitMain ==
    /\ InitGovernor({Rules(PermFull, <<>>, SomeClamp)})
    /\ InitMemory({NoFile, SavedFile(<<>>, OverfullLongTerm)},
                  {AssistantShortTermLimit})
    /\ InitAffect
    /\ InitTurn({{"empathetic"}}, {"llama"}, "start")

NextMain ==
    \/ Start
    \/ LoopHead
    \/ \E t \in MainInputs : Listen(t)
    \/ GateReasoning
    \/ \E a \in MainAnalyses : Analyze(a)
    \/ AnalyzeRaises
    \/ RouteCommand
    \/ RouteGenerative(Completion)
    \/ GenerateRaises
    \/ AdjustResponse
    \/ Record
    \/ Respond
    \/ Signal
    \/ \E i \in DOMAIN tasks : TaskBegin(i)
    \/ \E i \in DOMAIN tasks : TaskSummarize(i)
    \/ \E i \in DOMAIN tasks : TaskReplace(i)
    \/ \E i \in DOMAIN tasks : TaskSave(i)
    \/ MainShutdown
    \/ MainSummarize
    \/ MainSave

SpecMain == InitMain /\ [][NextMain]_vars

----------------------------------------------------------------------------
(* The claims *)

\* handle_input has returned
TurnDone == pc = "idle" /\ trace # <<>>

\* A configured keyword followed by arguments
KeywordWithArguments(text) ==
    \E k \in CommandKeys : IsPrefix(k, Lower(text)) /\ Len(text) > Len(k)

\* C1: whenever the decision on cognition.reason has allowed = false, the turn
\* emits the fixed refusal and is over at once: no analysis, no routing, no
\* reward, no memory item.
C1_ReasoningGateRefuses ==
    (turn.reason_decision # <<>> /\ ~turn.reason_decision[1].allowed) =>
        /\ trace = <<"gate", "respond">>
        /\ spoken = ReasonRefusal
        /\ score = turn0.score
        /\ short_term = turn0.short_term
        /\ long_term = turn0.long_term

\* C2: on the command branch, whenever the decision on
\* tools.execute_code_in_sandbox has allowed = false, the handler is not run,
\* the response is the fixed refusal and the reward score is what it was when
\* the turn began.
C2_CommandGateRefuses ==
    (turn.tool_decision # <<>> /\ ~turn.tool_decision[1].allowed) =>
        /\ ~turn.handler_ran
        /\ turn.response = CommandRefusal
        /\ score = turn0.score

\* C3: a finished turn whose input is a command keyword followed by arguments,
\* with both gates allowing, took the command branch; its response is the
\* handler's output and the score rose by exactly 1, the handler (set_timer)
\* not raising; and a command turn whose handler call raised answers with the
\* apology and the score fell by exactly 1.
C3_CommandSuccess ==
    /\ ( /\ TurnDone
         /\ KeywordWithArguments(turn.text)
         /\ GovernorDecision(rules, CognitionReason).allowed
         /\ GovernorDecision(rules, ToolsExecute).allowed ) =>
           /\ trace = <<"gate", "analyze", "command", "adjust", "record", "respond">>
           /\ turn.response = set_timer(turn.text)
           /\ score = turn0.score + 1
    /\ ( /\ TurnDone
         /\ turn.tool_decision # <<>>
         /\ GovernorDecision(rules, ToolsExecute).allowed
         /\ ~turn.handler_ran ) =>
           /\ turn.response = CommandApology
           /\ score = turn0.score - 1

\* The path resolves segment by segment in the permissions subtree: every
\* prefix of its segments is a node, and every node above the last is a mapping
Resolvable(tree, parts) ==
    \A i \in 1..Len(parts) :
        /\ SubSeq(parts, 1, i) \in DOMAIN tree
        /\ tree[SubSeq(parts, 1, i - 1)] = "dict"

\* C4: allows on a path that does not resolve segment by segment (a segment
\* is absent, or a leaf comes before the last segment) returns allowed = false
\* with reason "forbidden", and records that decision.
C4_FailClosed ==
    (last_call.op = "allows"
       /\ ~Resolvable(rules.permissions, Split(last_call.arg))) =>
        /\ last_call.ret.allowed = FALSE
        /\ last_call.ret.reason = "forbidden"
        /\ Last(audit_log).decision = last_call.ret

\* allows was asked about a path that runs past a leaf, and refused it
C4_Witness ==
    /\ last_call.op = "allows"
    /\ \E i \in 1..(Len(Split(last_call.arg)) - 1) :
           LET above == SubSeq(Split(last_call.arg), 1, i)
           IN  above \in DOMAIN rules.permissions
                 /\ rules.permissions[above] # "dict"
    /\ ~last_call.ret.allowed

\* C5: allows on a path that is a full chain of segments down to a leaf returns
\* allowed = true with reason "allowed", whatever the leaf holds.
C5_LeafChainAllowed ==
    (last_call.op = "allows"
       /\ Resolvable(rules.permissions, Split(last_call.arg))
       /\ rules.permissions[Split(last_call.arg)] # "dict") =>
        /\ last_call.ret.allowed = TRUE
        /\ last_call.ret.reason = "allowed"

\* allows was asked about a leaf that holds false or null, and allowed it
C5_Witness ==
    /\ last_call.op = "allows"
    /\ Split(last_call.arg) \in DOMAIN rules.permissions
    /\ rules.permissions[Split(last_call.arg)] \in {"false", "null"}
    /\ last_call.ret.allowed

\* A step that is a call of the engine's method op
CallOf(op) == calls' = calls + 1 /\ last_call'.op = op

C7_AppendOnly ==
    [][/\ IsPrefix(audit_log, audit_log')
       /\ Len(audit_log') \in {Len(audit_log), Len(audit_log) + 1}]_vars

\* The log holds records of two kinds, appended by different methods
C7_Witness ==
    /\ Len(audit_log) >= 2
    /\ audit_log[1].event = "clamp"
    /\ Last(audit_log).event = "permission_check"
    /\ last_call.op = "enforce"

\* C8: from an empty store, after k calls of add_interaction short_term has
\* length min(k, N) and holds the last min(k, N) interactions, oldest first.
C8_ShortTermWindow ==
    (loaded.short_term = <<>>) =>
        /\ Len(short_term) = Min(Len(added), short_term_limit)
        /\ \A i \in 1..Len(short_term) :
               short_term[i] = added[Len(added) - Len(short_term) + i]

\* N + 1 interactions were added to an empty store: the first was evicted
C8_Witness ==
    /\ loaded.short_term = <<>>
    /\ Len(added) = short_term_limit + 1
    /\ Len(short_term) = short_term_limit
    /\ short_term[1] = added[2]

\* C9: after any mutation of the store, a store loaded from a persisted file
\* included, short_term holds at most N items.
C9_ShortTermBounded ==
    (last_call.op \in {"add_interaction", "summarize_long_term"}) =>
        Len(short_term) <= short_term_limit

\* C10: add_interaction appends the new item to long_term exactly when its
\* importance is at least T; so every item of long_term that add_interaction
\* created has importance at least T, and every other one is a consolidation
\* summary or was read from the persisted file.
C10_LongTermAdmission ==
    /\ [][Len(added') = Len(added) + 1 =>
            LET item == Last(added')
            IN  IF item.importance >= 600
                THEN long_term' = Append(long_term, item)
                ELSE long_term' = long_term]_vars
    /\ [](\A i \in 1..Len(long_term) :
            \/ long_term[i].intent = "memory_summary" /\ long_term[i].importance = 1000
            \/ \E j \in 1..Len(loaded.long_term) : loaded.long_term[j] = long_term[i]
            \/ /\ \E j \in 1..Len(added) : added[j] = long_term[i]
               /\ long_term[i].importance >= 600)

\* An item of importance 0.59 was kept out and one of 0.6 was let in
C10_Witness ==
    /\ Len(added) >= 2
    /\ added[Len(added) - 1].importance = 590
    /\ Last(added).importance = 600
    /\ long_term # <<>>
    /\ Last(long_term) = Last(added)
    /\ \A i \in 1..Len(long_term) : long_term[i] # added[Len(added) - 1]

\* A step that is a call of summarize_long_term(max_items)
SummarizeCall(max_items) ==
    /\ added' = added
    /\ last_call' = Call("summarize_long_term", max_items, <<>>)

\* The k most recent entries of a list, none of them when k = 0
MostRecent(lt, k) == SubSeq(lt, Len(lt) - Min(k, Len(lt)) + 1, Len(lt))

\* C11: summarize_long_term(max_items) leaves long_term as it is when it holds
\* at most max_items entries; otherwise long_term becomes one item of intent
\* "memory_summary" and importance 1.0 whose summary is built from the
\* max_items most recent entries and from no earlier one.
C11_Consolidation ==
    [][\A m \in MaxItemsChoices : SummarizeCall(m) =>
           IF Len(long_term) <= m
           THEN long_term' = long_term
           ELSE /\ Len(long_term') = 1
                /\ long_term'[1].intent = "memory_summary"
                /\ long_term'[1].importance = 1000
                /\ long_term'[1].summary =
                       [i \in 1..Len(MostRecent(long_term, m)) |->
                           <<MostRecent(long_term, m)[i].intent,
                             Round2(MostRecent(long_term, m)[i].importance)>>]]_vars

\* C12: every axis of both affect vectors, the EmotionState's and the one
\* apply_reward couples into, is within [0, 1] after any sequence of
\* adjust_emotions, update_emotion and apply_reward calls with positive, zero
\* or negative arguments, from the initial vector.
C12_AffectInRange ==
    \A k \in Axes :
        /\ 0 <= emotion_state[k] /\ emotion_state[k] <= 1000
        /\ 0 <= cfg_emotion[k] /\ cfg_emotion[k] <= 1000

\* A large negative delta held happiness at 0 and sadness at 1, and repeated
\* rewards held the coupled happiness at 1
C12_Witness ==
    /\ last_call.op = "adjust_emotions"
    /\ last_call.arg = -20000
    /\ emotion_state.happiness = 0
    /\ emotion_state.sadness = 1000
    /\ cfg_emotion.happiness = 1000

\* C13 as stated: clamp returns v unchanged when the key has no configured
\* bounds, and otherwise a value r with min <= r <= max, equal to v when v is
\* within the bounds, for every configured pair.
C13_ClampWithinBounds ==
    (last_call.op = "clamp") =>
        LET key == last_call.arg[2]
            v == last_call.arg[3]
            r == last_call.ret
        IN  IF key \notin DOMAIN rules.personality_clamp
               \/ rules.personality_clamp[key] = <<>>
            THEN r = v
            ELSE LET lo == rules.personality_clamp[key][1]
                     hi == rules.personality_clamp[key][2]
                 IN  /\ lo <= r /\ r <= hi
                     /\ (lo <= v /\ v <= hi) => r = v

\* C13 as amended: clamp returns v unchanged when the key has no configured
\* bounds; for a configured pair with min <= max it returns a value r with
\* min <= r <= max, equal to v when v is within the bounds; for a configured
\* pair with min > max, which no value lies within, it returns min.
C13_ClampWithinOrderedBounds ==
    (last_call.op = "clamp") =>
        LET key == last_call.arg[2]
            v == last_call.arg[3]
            r == last_call.ret
        IN  IF key \notin DOMAIN rules.personality_clamp
               \/ rules.personality_clamp[key] = <<>>
            THEN r = v
            ELSE LET lo == rules.personality_clamp[key][1]
                     hi == rules.personality_clamp[key][2]
                 IN  IF lo <= hi
                     THEN /\ lo <= r /\ r <= hi
                          /\ (lo <= v /\ v <= hi) => r = v
                     ELSE r = lo

\* clamp brought a value from below its bounds up to min, after it had brought
\* one from above down to max
C13_Witness ==
    /\ last_call.op = "clamp"
    /\ HasBounds(rules, last_call.arg[2])
    /\ last_call.arg[3] < ClampBounds(rules, last_call.arg[2])[1]
    /\ last_call.ret = ClampBounds(rules, last_call.arg[2])[1]
    /\ ClampBounds(rules, last_call.arg[2])[1] < ClampBounds(rules, last_call.arg[2])[2]
    /\ \E i \in 1..Len(audit_log) :
           /\ audit_log[i].event = "clamp"
           /\ audit_log[i].decision.input > ClampBounds(rules, last_call.arg[2])[2]
           /\ audit_log[i].decision.output = ClampBounds(rules, last_call.arg[2])[2]

\* The decision that the allows() call inside enforce recorded
EnforceDecision == Last(audit_log).decision

\* C14: enforce(path) raises the forbidden violation when the decision of
\* allows(path) has allowed = false, whether or not approval is required;
\* raises the approval-required violation, a different one, when the path is
\* allowed and requires approval; and returns without raising exactly when
\* the path is allowed and requires no approval.
C14_Enforce ==
    (last_call.op = "enforce") =>
        /\ EnforceDecision.allowed = Resolvable(rules.permissions, Split(last_call.arg))
        /\ ~EnforceDecision.allowed => last_call.ret = "raise forbidden"
        /\ (EnforceDecision.allowed /\ EnforceDecision.requires_approval) =>
               last_call.ret = "raise requires approval"
        /\ (last_call.ret = "True") <=>
               (EnforceDecision.allowed /\ ~EnforceDecision.requires_approval)

\* enforce on a path that is both forbidden and subject to approval raised
\* the forbidden violation
C14_Witness ==
    /\ last_call.op = "enforce"
    /\ ~EnforceDecision.allowed
    /\ EnforceDecision.requires_approval
    /\ last_call.ret = "raise forbidden"

\* C15: the requires_approval field of the decision allows(path) returns is
\* true exactly when some identifier of approval_required_for is a suffix of
\* the path or occurs somewhere inside it, whether the path is allowed or not.
C15_ApprovalBySubstring ==
    (last_call.op = "allows") =>
        (last_call.ret.requires_approval <=>
            \E n \in DOMAIN rules.approval_required_for :
                LET a == rules.approval_required_for[n]
                    path == last_call.arg
                IN  \E i \in 1..(Len(path) + 1) :
                        /\ i + Len(a) - 1 <= Len(path)
                        /\ SubSeq(path, i, i + Len(a) - 1) = a)

\* A forbidden path that only contains a listed identifier, not at its end,
\* was marked as requiring approval
C15_Witness ==
    /\ last_call.op = "allows"
    /\ last_call.ret.requires_approval
    /\ ~last_call.ret.allowed
    /\ \A n \in DOMAIN rules.approval_required_for :
           ~EndsWith(last_call.arg, rules.approval_required_for[n])

\* C16: a call of process with intent "thank you" made when the recorded
\* last_intent is "set timer" answers with the chained acknowledgment.
C16_IntentChaining ==
    [][(/\ calls' = calls + 1
        /\ last_call'.op = "process"
        /\ context.last_intent = "set timer"
        /\ last_call'.arg[2] = "thank you") =>
           last_call'.ret = ChainedAcknowledgment]_vars

\* The loop of start() is left at this step
LoopExits == pc \in TurnStages \cup {"start", "idle", "listen"} /\ pc' = "finally"

\* handle_input begins at this step
TurnBegins == turns' = turns + 1

\* C17: no failure of the analyzer, the generator or a command handler ends
\* the loop of start(): the loop is left only at its head, between turns, with
\* the shutdown flag set, and never by an exception that left handle_input.
C17_FailuresContained ==
    [][LoopExits => (pc = "idle" /\ shutdown_event /\ ~turn'.uncaught)]_vars

\* C18: once the shutdown flag is raised no new turn is started: handle_input
\* does not begin on an input that listen_fn returns after the flag was raised.
C18_NoTurnAfterShutdown ==
    [][TurnBegins => ~shutdown_event]_vars

\* main() has returned and no thread of a shutdown() call is still running
ProcessEnded ==
    /\ pc = "exited"
    /\ \A i \in DOMAIN tasks : tasks[i] \in {"done", "cancelled"}

\* C19: when the control flow of the process ends with the shutdown flag
\* raised, the final consolidation and then the save have both completed,
\* each of them once, however many times shutdown() was invoked.
C19_ShutdownFlushes ==
    (ProcessEnded /\ shutdown_event) =>
        (flush.summarized = 1 /\ flush.saved = 1)

\* C20: at most one handle_input call is in flight; listen_fn is awaited only
\* when none is, and a turn begins only when the one before it has returned.
C20_OneTurnInFlight ==
    /\ [](in_flight \in {0, 1} /\ (pc = "listen" => in_flight = 0))
    /\ [][TurnBegins => (in_flight = 0 /\ in_flight' = 1)]_vars

\* A second turn is in flight after the first has returned, while a shutdown
\* task created by a signal runs beside it
C20_Witness ==
    /\ turns = 2
    /\ in_flight = 1
    /\ pc = "record"
    /\ trace = <<"gate", "analyze", "generate", "adjust">>
    /\ tasks # <<>>
    /\ tasks[1] = "save"

\* A long-term item is accounted for when it is in long_term or when a summary
\* held there lists its intent and importance
AccountedFor(item) ==
    \/ \E i \in DOMAIN long_term : long_term[i] = item
    \/ \E i \in DOMAIN long_term :
           /\ long_term[i].intent = "memory_summary"
           /\ \E k \in DOMAIN long_term[i].summary :
                  long_term[i].summary[k] = <<item.intent, Round2(item.importance)>>

\* C21: the consolidation run by shutdown() never overlaps a turn's
\* add_interaction: every item that a turn admitted to long_term is still
\* there, or is listed in the summary that replaced the list.
C21_NoAdmittedItemLost ==
    \A j \in DOMAIN added :
        added[j].importance >= importance_threshold => AccountedFor(added[j])

\* A step is a call of apply_reward(points)
RewardCall(points) ==
    /\ last_call'.op = "apply_reward"
    /\ last_call'.arg = points

\* C22: apply_reward(points) adds points to the score and, on the affect
\* vector of the orchestrator (the one that is snapshotted and stored in
\* memory items), raises happiness by 0.05 for points > 0 and sadness by 0.05
\* for points < 0, capped at 1.0, and changes no axis for points = 0.
C22_RewardCoupling ==
    [][\A p \in RewardPoints :
          RewardCall(p) =>
              /\ score' = score + p
              /\ emotion_state' = RewardedEmotion(emotion_state, p)]_vars

\* The store has just been constructed over a file whose reading or decoding
\* raised
LoadFailed ==
    /\ last_call = NoCall
    /\ added = <<>>
    /\ disk.exists
    /\ ~(disk.json_ok /\ disk.short_ok /\ disk.long_ok)

\* C23: a load that fails in any way, also on a file whose short_term list is
\* valid and whose long_term list is malformed, leaves the constructed store
\* with short_term and long_term both empty.
C23_FailedLoadIsEmpty ==
    LoadFailed => (short_term = <<>> /\ long_term = <<>>)

\* The write of the save inside the call just made failed: the file is not
\* the image of the lists
SaveFailed == disk # SavedFile(short_term, long_term)

AddCall == last_call'.op = "add_interaction" /\ Len(added') = Len(added) + 1

ConsolidatingCall(m) ==
    /\ last_call'.op = "summarize_long_term"
    /\ last_call'.arg = m
    /\ Len(long_term) > m

\* C24: a failed write is not fatal and memory stays authoritative: whether or
\* not the save inside add_interaction or summarize_long_term fails, and
\* whether or not an earlier one failed, the call returns normally and the
\* lists in memory are those of the completed mutation of the lists in memory.
C24_FailedSaveNonFatal ==
    /\ [][AddCall =>
            /\ last_call'.ret = <<>>
            /\ short_term' = short_term_after_add(short_term, Last(added'),
                                                  short_term_limit)
            /\ long_term' = long_term_after_add(long_term, Last(added'),
                                                importance_threshold)]_vars
    /\ [][\A m \in MaxItemsChoices :
            ConsolidatingCall(m) =>
                /\ last_call'.ret = <<>>
                /\ short_term' = short_term
                /\ Len(long_term') = 1
                /\ long_term'[1].intent = "memory_summary"]_vars

\* The write failed in the first add_interaction and again in the second, and
\* the second item was appended to the first in memory
C24_Witness ==
    /\ last_call.op = "add_interaction"
    /\ loaded.long_term = <<>>
    /\ Len(added) = 2
    /\ long_term = <<added[1], added[2]>>
    /\ ~disk.exists
    /\ SaveFailed

\* Two records of allows() about the same path
SameQuery(i, j) ==
    /\ audit_log[i].event = "permission_check"
    /\ audit_log[j].event = "permission_check"
    /\ audit_log[i].subject = audit_log[j].subject

\* C25: no call of allows, clamp, requires_approval or enforce changes the
\* rule tree, and two queries about the same path get the same decision.
C25_RulesImmutable ==
    /\ [][rules' = rules]_vars
    /\ [](\A i, j \in DOMAIN audit_log :
             SameQuery(i, j) => audit_log[i].decision = audit_log[j].decision)

\* The same path was queried before and after a clamp that was audited, and
\* needed approval both times
C25_Witness ==
    /\ Len(audit_log) = 3
    /\ audit_log[2].event = "clamp"
    /\ SameQuery(1, 3)
    /\ audit_log[1].decision.requires_approval
    /\ audit_log[3].decision.requires_approval

\* The walk along the segments comes to a node that is not a mapping before the
\* segments are used up
HitsMalformedNode(tree, parts) ==
    \E i \in 0..(Len(parts) - 1) :
        /\ SubSeq(parts, 1, i) \in DOMAIN tree
        /\ tree[SubSeq(parts, 1, i)] # "dict"

\* C26: over a malformed rule tree with a valid governor.version (a value
\* that is no mapping under permissions; approval_required_for null or holding
\* an item that is no string) allows(path) returns a decision and does not
\* raise, with allowed = false when the traversal hits the malformed node.
C26_MalformedNeverRaises ==
    last_call.op = "allows" =>
        /\ "allowed" \in DOMAIN last_call.ret
        /\ HitsMalformedNode(rules.permissions, Split(last_call.arg)) =>
               ~last_call.ret.allowed

\* The decision on cognition.reason of the current turn has allowed = true
PassedGate == turn.reason_decision # <<>> /\ turn.reason_decision[1].allowed

\* The items of `old` that a list of length n, one item appended, has kept
KeptOf(old, n) ==
    IF n = Len(old) + 1 \/ old = <<>> THEN old ELSE Tail(old)

\* C27: a turn never writes two items, and a turn that passed the reasoning
\* gate and has returned wrote exactly one: it is the new last element of
\* short_term, in front of it is what short_term held when the turn began,
\* less at most the oldest item, and long_term gained that item or nothing.
C27_OneItemPerTurn ==
    /\ Len(added) - turn0.added \in {0, 1}
    /\ (TurnDone /\ PassedGate) =>
           /\ Len(added) = turn0.added + 1
           /\ Len(short_term) \in {Len(turn0.short_term), Len(turn0.short_term) + 1}
           /\ short_term = Append(KeptOf(turn0.short_term, Len(short_term)),
                                  Last(added))
           /\ long_term \in {turn0.long_term,
                              Append(turn0.long_term, Last(added))}

\* A turn that passed the gate has returned; its item pushed the oldest one
\* out of a full short_term and was admitted to long_term
C27_Witness ==
    /\ TurnDone
    /\ PassedGate
    /\ Len(turn0.short_term) = short_term_limit
    /\ Len(short_term) = short_term_limit
    /\ short_term[1] = turn0.short_term[2]
    /\ Last(short_term) = Last(added)
    /\ long_term = Append(turn0.long_term, Last(added))

\* The turn is past its analysis
AfterAnalysis == pc \in {"command", "generate", "adjust", "record", "speak"}

\* C28: the importance and the emotion of a turn's memory item come from the
\* affect snapshot taken right after analysis: the snapshot is the
\* orchestrator's vector at that moment, nothing later in the turn changes
\* it, and the item written holds it and the importance computed from it,
\* whatever apply_reward did to affect in between.
C28_SnapshotDecidesMemory ==
    /\ [][(pc = "analyze" /\ pc' \in {"command", "generate"}) =>
             turn'.emotion_before = emotion_state]_vars
    /\ [][AfterAnalysis => turn'.emotion_before = turn.emotion_before]_vars
    /\ [][(pc = "record" /\ pc' = "speak") =>
             /\ Len(added') = Len(added) + 1
             /\ Last(added').emotion = turn.emotion_before
             /\ Last(added').importance =
                    _estimate_importance(turn.intent, turn.sentiment,
                                         turn.emotion_before)]_vars

\* A command turn whose handler call failed has written its item: the reward
\* moved an affect vector after the snapshot, and the item holds the snapshot
C28_Witness ==
    /\ pc = "speak"
    /\ trace = <<"gate", "analyze", "command", "adjust", "record">>
    /\ turn.failed = "handler"
    /\ cfg_emotion # turn.emotion_before
    /\ Last(added).emotion = turn.emotion_before
    /\ Last(added).emotion # cfg_emotion

\* The stages of a whole turn on each branch, in the order of the claim
CommandTurn == <<"gate", "analyze", "command", "adjust", "record", "respond">>

GenerativeTurn == <<"gate", "analyze", "generate", "adjust", "record", "respond">>

\* C29: within a turn the reasoning gate query comes before analysis, analysis
\* before routing, routing before response adjustment, adjustment before the
\* memory write and the memory write with its save before the output; no
\* stage is repeated or out of order, and a turn that has returned went
\* through all of them.
C29_StageOrder ==
    /\ IsPrefix(trace, CommandTurn) \/ IsPrefix(trace, GenerativeTurn)
    /\ TurnDone => trace \in {CommandTurn, GenerativeTurn}
    /\ pc \in TurnStages => spoken = <<>>
    /\ (trace # <<>> /\ Last(trace) = "respond") =>
           /\ Len(added) = turn0.added + 1
           /\ Len(audit_log) > turn0.audits
           /\ spoken = Last(added).assistant_response

\* A generative turn has returned after all six stages, and its memory item
\* holds what was spoken
C29_Witness ==
    /\ TurnDone
    /\ trace = GenerativeTurn
    /\ Len(added) = turn0.added + 1
    /\ spoken = Last(added).assistant_response
    /\ spoken # <<>>

\* The subjects of the audit records appended since the turn began
TurnQueries ==
    [i \in 1..(Len(audit_log) - turn0.audits) |->
        audit_log[turn0.audits + i].subject]

\* C30: a returned turn on the generative branch made exactly one policy
\* query (cognition.reason) and so appended one audit record; one on the
\* command branch made exactly two (cognition.reason, then
\* tools.execute_code_in_sandbox); and a turn whose decision at the reasoning
\* gate was a refusal made exactly one.
C30_QueriesPerTurn ==
    TurnDone =>
        IF ~turn.reason_decision[1].allowed
        THEN TurnQueries = <<CognitionReason>>
        ELSE IF Lower(turn.text) \in CommandKeys
        THEN TurnQueries = <<CognitionReason, ToolsExecute>>
        ELSE TurnQueries = <<CognitionReason>>

\* The non-empty prefixes of a path that end just before one of its dots
DotPrefixes(path) ==
    {SubSeq(path, 1, i - 1) : i \in {k \in 1..Len(path) : path[k] = Dot}} \ {<<>>}

\* One record of allows() is about a dot-delimited prefix of the path of
\* another
PrefixQuery(i, j) ==
    /\ audit_log[i].event = "permission_check"
    /\ audit_log[j].event = "permission_check"
    /\ audit_log[i].subject \in DotPrefixes(audit_log[j].subject)

\* C31: permission lookup is prefix-closed: when allows(p) is allowed, the
\* lookup allows every non-empty dot-delimited prefix of p, and every call of
\* allows that was made on such a prefix was allowed.
C31_PrefixClosed ==
    /\ (last_call.op = "allows" /\ last_call.ret.allowed) =>
           \A q \in DotPrefixes(last_call.arg) : _lookup_permission(rules, q)
    /\ \A i, j \in DOMAIN audit_log :
           (PrefixQuery(i, j) /\ audit_log[j].decision.allowed) =>
               audit_log[i].decision.allowed

\* allows was asked about a mapping and then about a leaf below it, and
\* allowed both
C31_Witness ==
    /\ last_call.op = "allows"
    /\ last_call.ret.allowed
    /\ Len(audit_log) >= 2
    /\ PrefixQuery(1, Len(audit_log))
    /\ Last(audit_log).subject = last_call.arg
    /\ rules.permissions[Split(audit_log[1].subject)] = "dict"
    /\ audit_log[1].decision.allowed

\* C32: the exact-match test is subsumed by the approval flag of the
\* decision: whenever requires_approval(action) returns true, the decision of
\* allows(action) has requires_approval = true, in the lookup and in every
\* record of allows(action) in the log.
C32_ExactMatchSubsumed ==
    (last_call.op = "requires_approval" /\ last_call.ret = TRUE) =>
        /\ GovernorDecision(rules, last_call.arg).requires_approval
        /\ \A i \in DOMAIN audit_log :
               (audit_log[i].event = "permission_check"
                  /\ audit_log[i].subject = last_call.arg) =>
                   audit_log[i].decision.requires_approval

\* requires_approval returned true for an action that allows had just been
\* asked about, and the decision recorded for it requires approval
C32_Witness ==
    /\ last_call.op = "requires_approval"
    /\ last_call.ret = TRUE
    /\ audit_log # <<>>
    /\ Last(audit_log).event = "permission_check"
    /\ Last(audit_log).subject = last_call.arg
    /\ Last(audit_log).decision.requires_approval

\* The converse of C32 fails: requires_approval returned false for a path
\* whose decision has requires_approval = true
C32_ConverseFails ==
    /\ last_call.op = "requires_approval"
    /\ last_call.ret = FALSE
    /\ GovernorDecision(rules, last_call.arg).requires_approval

Admitted(item) == item.importance >= importance_threshold

\* C33: eviction from short_term does not touch long_term: add_interaction
\* leaves the items long_term held where they were and at most appends one,
\* only summarize_long_term ever takes items out of long_term, and so, until a
\* consolidation happens, long_term is what was loaded followed by every
\* admitted item in the order of admission, evicted from short_term or not.
C33_EvictionSparesLongTerm ==
    /\ [][AddCall => IsPrefix(long_term, long_term')]_vars
    /\ [][~IsPrefix(long_term, long_term') =>
             (last_call'.op = "summarize_long_term" /\ added' = added)]_vars
    /\ [](calls = 0 =>
             long_term = loaded.long_term \o SelectSeq(added, Admitted))

\* Two items were admitted behind a loaded one; the first has since been
\* evicted from short_term and is still where it was in long_term
C33_Witness ==
    /\ calls = 0
    /\ Len(loaded.long_term) = 1
    /\ Len(added) >= 2
    /\ Admitted(added[1])
    /\ \A i \in DOMAIN short_term : short_term[i] # added[1]
    /\ Len(long_term) = 3
    /\ long_term[1] = loaded.long_term[1]
    /\ long_term[2] = added[1]

\* C34: every call of enforce appends exactly one audit record, the one of the
\* allows call inside it, also when enforce ends by raising the forbidden or
\* the approval-required violation: the record is in the log when the
\* violation is raised.
C34_EnforceAudits ==
    [][CallOf("enforce") =>
           /\ Len(audit_log') = Len(audit_log) + 1
           /\ IsPrefix(audit_log, audit_log')
           /\ Last(audit_log').event = "permission_check"
           /\ Last(audit_log').subject = last_call'.arg
           /\ Last(audit_log').decision =
                  GovernorDecision(rules, last_call'.arg)
           /\ last_call'.ret = EnforceOutcome(Last(audit_log').decision)]_vars

\* enforce raised the forbidden violation and then the approval-required
\* one, and the log holds the record of each of the two calls
C34_Witness ==
    /\ last_call.op = "enforce"
    /\ last_call.ret = "raise requires approval"
    /\ Len(audit_log) = 2
    /\ calls = 2
    /\ ~audit_log[1].decision.allowed
    /\ audit_log[2].subject = last_call.arg
    /\ audit_log[2].decision.allowed
    /\ audit_log[2].decision.requires_approval

====
